---- MODULE Spec2Model ----
(***************************************************************************)
(* CAFI classification clean-up (CAFI_classification_cleanup.py).          *)
(*                                                                         *)
(* The script is a chain of per-pixel raster expressions.  The model       *)
(* follows ONE pixel through the nine cells of the script: a variable per  *)
(* image the script names, holding that image's value at the pixel.        *)
(* A pixel value is an integer, or NoData when the image is masked there.  *)
(* An image that no later cell reads is released (Unset), so that a state  *)
(* holds what the cell just evaluated read and wrote plus what later       *)
(* cells still need.                                                       *)
(***************************************************************************)
EXTENDS Integers, Sequences, FiniteSets

VARIABLES pc, inAoi, inLsib, countries_raster,
          class2015, class2015_no_alos, classDDD, classDDD_no_alos,
          classDDD_fill, GHSbuiltup, builtup, class2015_fix1,
          treecover2015, class2015_fix3, dem, class2015_fix5,
          mangroves, mang_buffer, class2015_fix7,
          water_area, class2015_fixwater,
          gabon_os, annobon, class2015_final, fnf, fnf_final

vars == <<pc, inAoi, inLsib, countries_raster,
          class2015, class2015_no_alos, classDDD, classDDD_no_alos,
          classDDD_fill, GHSbuiltup, builtup, class2015_fix1,
          treecover2015, class2015_fix3, dem, class2015_fix5,
          mangroves, mang_buffer, class2015_fix7,
          water_area, class2015_fixwater,
          gabon_os, annobon, class2015_final, fnf, fnf_final>>

----------------------------------------------------------------------------
(* Pixel values *)

\* a masked pixel (no data)
NoData == 0 - 1
\* an image the model does not hold at this step
Unset == 0 - 2

----------------------------------------------------------------------------
(* Bounds of the input domains *)

\* raw regional codes run over 0..MaxRegionalCode (the lookup table ends at 15)
MaxRegionalCode == 16
\* raw built-up codes run over 0..MaxBuiltCode (the lookup table is 1..6)
MaxBuiltCode == 7
\* country codes run over 0..MaxCountry
MaxCountry == 6
\* water classes run over 0..MaxWaterClass
MaxWaterClass == 3
\* elevations and tree covers are sampled within this margin of each threshold
ElevMargin == 1
TreeMargin == 1
\* largest class code of the DDD legend (19 palette entries)
MaxDDD == 19

ElevThresholds == {35, 1100, 1750}
Elevations ==
    {NoData, 0, 1800}
      \cup UNION {(t - ElevMargin)..(t + ElevMargin) : t \in ElevThresholds}
TreeCovers == {NoData, 0, 80, 100} \cup ((60 - TreeMargin)..(60 + TreeMargin))
RegionalCodes == {NoData} \cup (0..MaxRegionalCode)
BuiltCodes == {NoData} \cup (0..MaxBuiltCode)
Countries == {NoData} \cup (0..MaxCountry)
WaterClasses == {NoData} \cup (0..MaxWaterClass)
\* the national dataset carries legend codes and its sentinel 128
NationalCodes == {NoData, 128} \cup (0..MaxDDD)
IslandCodes == {NoData} \cup (0..MaxDDD)
Flags == {NoData, 0, 1}

----------------------------------------------------------------------------
(* Earth Engine image operators, at one pixel *)

Bool(b) == IF b THEN 1 ELSE 0

\* a binary operator's result is masked where either operand is masked
eq(a, b) == IF a = NoData \/ b = NoData THEN NoData ELSE Bool(a = b)
neq(a, b) == IF a = NoData \/ b = NoData THEN NoData ELSE Bool(a # b)
lt(a, b) == IF a = NoData \/ b = NoData THEN NoData ELSE Bool(a < b)
lte(a, b) == IF a = NoData \/ b = NoData THEN NoData ELSE Bool(a <= b)
gt(a, b) == IF a = NoData \/ b = NoData THEN NoData ELSE Bool(a > b)
gte(a, b) == IF a = NoData \/ b = NoData THEN NoData ELSE Bool(a >= b)
add(a, b) == IF a = NoData \/ b = NoData THEN NoData ELSE a + b
And(a, b) == IF a = NoData \/ b = NoData THEN NoData ELSE Bool(a # 0 /\ b # 0)
Or(a, b) == IF a = NoData \/ b = NoData THEN NoData ELSE Bool(a # 0 \/ b # 0)

\* unmask(): a masked pixel becomes 0
unmask(a) == IF a = NoData THEN 0 ELSE a

\* clip(geometry): pixels outside the geometry are masked
clip(a, inside) == IF inside THEN a ELSE NoData

\* updateMask(mask): masked where the mask is 0 or masked
updateMask(a, m) == IF a = NoData \/ m = NoData \/ m = 0 THEN NoData ELSE a

\* where(test, value): value where test is nonzero; the input where test or
\* value is masked; a masked input stays masked
where(input, test, value) ==
    IF input = NoData THEN NoData
    ELSE IF test = NoData \/ value = NoData THEN input
    ELSE IF test # 0 THEN value
    ELSE input

\* remap that passes an unmapped value through instead of masking it
remap_passthrough(v, from, to) ==
    IF v = NoData THEN NoData
    ELSE IF \E i \in 1..Len(from) : from[i] = v
         THEN to[CHOOSE i \in 1..Len(from) : from[i] = v]
         ELSE v

\* remap(from, to) with no default value: a value not in from is masked
remap(v, from, to) ==
    IF v = NoData THEN NoData
    ELSE IF \E i \in 1..Len(from) : from[i] = v
         THEN to[CHOOSE i \in 1..Len(from) : from[i] = v]
         ELSE NoData

----------------------------------------------------------------------------
(* Declared masks (cell In[5]) *)

builtup_of(ghs) == remap(ghs, <<1, 2, 3, 4, 5, 6>>, <<0, 0, 1, 1, 1, 1>>)
not_gabon(c) == neq(c, 6)
\* holes that tests the wrong side of the footprint
holes_outside(c, g) == unmask(And(not_gabon(c), eq(g, 128)))
holes(c, g) == unmask(And(neq(not_gabon(c), 1), eq(g, 128)))
seasonal(w) == unmask(eq(w, 2))
permanent(w) == unmask(eq(w, 3))
anno_area(a) == unmask(gt(a, 0))
car_cam(c) == Or(eq(c, 2), eq(c, 3))

----------------------------------------------------------------------------
(* 1. Recode classes from SEPAL to Code DDD *)

class_values == <<1, 2, 3, 4, 5, 6, 7, 8, 9, 10, 11, 12, 13, 14, 15>>
reclass_values == <<1, 2, 3, 4, 7, 8, 9, 11, 12, 13, 14, 15, 16, 17, 18>>

ClassDDD(c) == unmask(remap(c, class_values, reclass_values))

(* 2. fix ALOS holes *)

alosholes(p) == add(eq(p, 0), 1)
ClassDDDFill(p, s) == where(p, eq(alosholes(p), 2), s)

(* 3. fix built up area *)

\* built_wrong that forgets the indicator
built_wrong_any(fill, b) == eq(fill, 17)
built_wrong(fill, b) == And(eq(fill, 17), neq(b, 1))
class2015_fix(fill, b) == where(fill, eq(b, 1), 17)
Class2015Fix1(fill, b, aoi) ==
    clip(where(class2015_fix(fill, b), eq(built_wrong(fill, b), 1), 15), aoi)

(* 4. apply treecover for closed and open forest *)

claire(tc) == lt(tc, 60)
\* dense with a threshold that overlaps claire
dense_low(tc) == gte(tc, 59)
dense(tc) == gte(tc, 60)
forest_to_split(c) == Or(eq(c, 2), eq(c, 4))
forestclaireseche(c, tc) == And(eq(forest_to_split(c), 1), eq(claire(tc), 1))
forestdenseseche(c, tc) == And(eq(forest_to_split(c), 1), eq(dense(tc), 1))
class2015_fix2(c, tc) == where(c, eq(forestclaireseche(c, tc), 1), 4)
Class2015Fix3(c, tc) ==
    where(class2015_fix2(c, tc), eq(forestdenseseche(c, tc), 1), 2)

(* 5. fix montane forest based on elevation *)

montane(d, c) == And(gte(d, 1750), eq(c, 1))
\* submontane with no upper limit
submontane_open(d, c) == And(gte(d, 1100), eq(c, 1))
submontane(d, c) == And(lt(d, 1750), And(gte(d, 1100), eq(c, 1)))
class2015_fix4(fix1, fix3, d) == where(fix3, eq(submontane(d, fix1), 1), 5)
Class2015Fix5(fix1, fix3, d) ==
    where(class2015_fix4(fix1, fix3, d), eq(montane(d, fix1), 1), 6)

(* 6. fix mangrove based on elevation and the buffer of ESA Mangrove *)

mangarea(d, c, buf) == unmask(updateMask(And(lte(d, 35), lte(c, 12)), buf))
\* nomang with a strict elevation test
nomang_above(d, ctry) == unmask(Or(gt(d, 35), eq(ctry, 3)))
\* nomang over both countries of car_cam
nomang_pair(d, ctry) == unmask(Or(gte(d, 35), car_cam(ctry)))
nomang(d, ctry) == unmask(Or(gte(d, 35), eq(ctry, 3)))
mangadd(m, d, c, buf) == unmask(And(eq(m, 1), eq(mangarea(d, c, buf), 1)))
mangfix(m, d, ctry) == unmask(And(eq(m, 1), eq(nomang(d, ctry), 1)))
class2015_fix6(c, m, d, buf) == where(c, eq(mangadd(m, d, c, buf), 1), 7)
Class2015Fix7(c, m, d, ctry, buf) ==
    where(class2015_fix6(c, m, d, buf), eq(mangfix(m, d, ctry), 1), 8)

(* 7. fix water and prairies with JRC data *)

\* prairie that forgets the class test
prairie_any(w, c) == eq(seasonal(w), 1)
prairie(w, c) == And(eq(seasonal(w), 1), And(neq(c, 14), neq(c, 18)))
class2015_fixwater1(c, w) == where(c, eq(prairie(w, c), 1), 14)
Class2015Fixwater(c, w) ==
    unmask(where(class2015_fixwater1(c, w), eq(permanent(w), 1), 18))

(* 8. add gabon and annobon data *)

class2015_wgab(r, ctry, g) == where(r, neq(not_gabon(ctry), 1), g)
\* class2015_clean with the hole fill left out
class2015_clean_skip(r, ctry, g) == class2015_wgab(r, ctry, g)
class2015_clean(r, ctry, g) ==
    where(class2015_wgab(r, ctry, g), eq(holes(ctry, g), 1), r)
Class2015Final(r, ctry, g, a) ==
    where(class2015_clean(r, ctry, g), gt(anno_area(a), 0), a)

(* 9. apply forest definitions to cameroun and central african republic *)

fnf_from == <<1, 2, 3, 4, 5, 6, 7, 8, 9, 11, 12, 13, 14, 15, 16, 17, 18>>
fnf_to == <<1, 1, 1, 1, 1, 1, 1, 1, 1, 1, 2, 2, 2, 2, 2, 2, 3>>

\* caf_sav that forgets the class test
caf_sav_any(ctry, c) == eq(car_cam(ctry), 1)
caf_sav(ctry, c) == And(eq(car_cam(ctry), 1), eq(c, 12))
Fnf(c, aoi) == clip(remap(c, fnf_from, fnf_to), aoi)
FnfFinal(c, ctry, aoi, lsib) ==
    clip(where(Fnf(c, aoi), eq(caf_sav(ctry, c), 1), 1), lsib)

----------------------------------------------------------------------------
(* The pixel before the first cell: where it lies and the two regional     *)
(* classifications there; nothing is computed yet.                         *)

Init ==
    /\ pc = 0
    /\ inAoi \in BOOLEAN
    /\ countries_raster \in Countries
    /\ class2015 \in RegionalCodes
    /\ class2015_no_alos \in RegionalCodes
    /\ inLsib = Unset
    /\ classDDD = Unset
    /\ classDDD_no_alos = Unset
    /\ classDDD_fill = Unset
    /\ GHSbuiltup = Unset
    /\ builtup = Unset
    /\ class2015_fix1 = Unset
    /\ treecover2015 = Unset
    /\ class2015_fix3 = Unset
    /\ dem = Unset
    /\ class2015_fix5 = Unset
    /\ mangroves = Unset
    /\ mang_buffer = Unset
    /\ class2015_fix7 = Unset
    /\ water_area = Unset
    /\ class2015_fixwater = Unset
    /\ gabon_os = Unset
    /\ annobon = Unset
    /\ class2015_final = Unset
    /\ fnf = Unset
    /\ fnf_final = Unset

\* cell In[6]: both regional classifications are recoded
Recode ==
    /\ pc = 0
    /\ classDDD' = ClassDDD(class2015)
    /\ classDDD_no_alos' = ClassDDD(class2015_no_alos)
    /\ pc' = 1
    /\ UNCHANGED <<inAoi, inLsib, countries_raster, class2015,
                   class2015_no_alos, classDDD_fill, GHSbuiltup, builtup,
                   class2015_fix1, treecover2015, class2015_fix3, dem,
                   class2015_fix5, mangroves, mang_buffer, class2015_fix7,
                   water_area, class2015_fixwater, gabon_os, annobon,
                   class2015_final, fnf, fnf_final>>

\* cell In[7]
FixAlosHoles ==
    /\ pc = 1
    /\ classDDD_fill' = ClassDDDFill(classDDD, classDDD_no_alos)
    /\ pc' = 2
    /\ class2015' = Unset
    /\ class2015_no_alos' = Unset
    /\ UNCHANGED <<inAoi, inLsib, countries_raster, classDDD, classDDD_no_alos,
                   GHSbuiltup, builtup, class2015_fix1, treecover2015,
                   class2015_fix3, dem, class2015_fix5, mangroves, mang_buffer,
                   class2015_fix7, water_area, class2015_fixwater, gabon_os,
                   annobon, class2015_final, fnf, fnf_final>>

\* cell In[8]; reads the built-up layer
FixBuiltUp ==
    /\ pc = 2
    /\ \E g \in BuiltCodes :
         /\ GHSbuiltup' = g
         /\ builtup' = builtup_of(g)
         /\ class2015_fix1' = Class2015Fix1(classDDD_fill, builtup_of(g), inAoi)
    /\ pc' = 3
    /\ classDDD' = Unset
    /\ classDDD_no_alos' = Unset
    /\ UNCHANGED <<inAoi, inLsib, countries_raster, class2015,
                   class2015_no_alos, classDDD_fill, treecover2015,
                   class2015_fix3, dem, class2015_fix5, mangroves, mang_buffer,
                   class2015_fix7, water_area, class2015_fixwater, gabon_os,
                   annobon, class2015_final, fnf, fnf_final>>

\* cell In[9]; reads the tree cover
ApplyTreecover ==
    /\ pc = 3
    /\ \E tc \in TreeCovers :
         /\ treecover2015' = tc
         /\ class2015_fix3' = Class2015Fix3(class2015_fix1, tc)
    /\ pc' = 4
    /\ classDDD_fill' = Unset
    /\ GHSbuiltup' = Unset
    /\ builtup' = Unset
    /\ UNCHANGED <<inAoi, inLsib, countries_raster, class2015,
                   class2015_no_alos, classDDD, classDDD_no_alos,
                   class2015_fix1, dem, class2015_fix5, mangroves, mang_buffer,
                   class2015_fix7, water_area, class2015_fixwater, gabon_os,
                   annobon, class2015_final, fnf, fnf_final>>

\* cell In[10]; reads the elevation
FixMontane ==
    /\ pc = 4
    /\ \E d \in Elevations :
         /\ dem' = d
         /\ class2015_fix5' = Class2015Fix5(class2015_fix1, class2015_fix3, d)
    /\ pc' = 5
    /\ UNCHANGED <<inAoi, inLsib, countries_raster, class2015,
                   class2015_no_alos, classDDD, classDDD_no_alos,
                   classDDD_fill, GHSbuiltup, builtup, class2015_fix1,
                   treecover2015, class2015_fix3, mangroves, mang_buffer,
                   class2015_fix7, water_area, class2015_fixwater, gabon_os,
                   annobon, class2015_final, fnf, fnf_final>>

\* cell In[13]; reads the mangrove indicator and the buffered ESA layer
FixMangrove ==
    /\ pc = 5
    /\ \E m \in Flags, buf \in Flags :
         /\ mangroves' = m
         /\ mang_buffer' = buf
         /\ class2015_fix7' = Class2015Fix7(class2015_fix5, m, dem, countries_raster, buf)
    /\ pc' = 6
    /\ class2015_fix1' = Unset
    /\ treecover2015' = Unset
    /\ class2015_fix3' = Unset
    /\ UNCHANGED <<inAoi, inLsib, countries_raster, class2015,
                   class2015_no_alos, classDDD, classDDD_no_alos,
                   classDDD_fill, GHSbuiltup, builtup, dem, class2015_fix5,
                   water_area, class2015_fixwater, gabon_os, annobon,
                   class2015_final, fnf, fnf_final>>

\* cell In[14]; reads the water class, clipped to the study area
FixWater ==
    /\ pc = 6
    /\ \E w \in WaterClasses :
         /\ water_area' = clip(w, inAoi)
         /\ class2015_fixwater' = Class2015Fixwater(class2015_fix7, clip(w, inAoi))
    /\ pc' = 7
    /\ dem' = Unset
    /\ class2015_fix5' = Unset
    /\ mangroves' = Unset
    /\ mang_buffer' = Unset
    /\ UNCHANGED <<inAoi, inLsib, countries_raster, class2015,
                   class2015_no_alos, classDDD, classDDD_no_alos,
                   classDDD_fill, GHSbuiltup, builtup, class2015_fix1,
                   treecover2015, class2015_fix3, class2015_fix7, gabon_os,
                   annobon, class2015_final, fnf, fnf_final>>

\* cell In[15]; reads the national and the island dataset
AddGabonAnnobon ==
    /\ pc = 7
    /\ \E g \in NationalCodes, a \in IslandCodes :
         /\ gabon_os' = g
         /\ annobon' = unmask(a)
         /\ class2015_final' = Class2015Final(class2015_fixwater, countries_raster, g, unmask(a))
    /\ pc' = 8
    /\ class2015_fix7' = Unset
    /\ water_area' = Unset
    /\ UNCHANGED <<inAoi, inLsib, countries_raster, class2015,
                   class2015_no_alos, classDDD, classDDD_no_alos,
                   classDDD_fill, GHSbuiltup, builtup, class2015_fix1,
                   treecover2015, class2015_fix3, dem, class2015_fix5,
                   mangroves, mang_buffer, class2015_fixwater, fnf, fnf_final>>

\* cell In[16]; the result is clipped to the country boundaries
ForestDefinition ==
    /\ pc = 8
    /\ \E l \in BOOLEAN :
         /\ inLsib' = l
         /\ fnf' = Fnf(class2015_final, inAoi)
         /\ fnf_final' = FnfFinal(class2015_final, countries_raster, inAoi, l)
    /\ pc' = 9
    /\ class2015_fixwater' = Unset
    /\ gabon_os' = Unset
    /\ annobon' = Unset
    /\ UNCHANGED <<inAoi, countries_raster, class2015, class2015_no_alos,
                   classDDD, classDDD_no_alos, classDDD_fill, GHSbuiltup,
                   builtup, class2015_fix1, treecover2015, class2015_fix3, dem,
                   class2015_fix5, mangroves, mang_buffer, class2015_fix7,
                   water_area, class2015_final>>

Next ==
    \/ Recode
    \/ FixAlosHoles
    \/ FixBuiltUp
    \/ ApplyTreecover
    \/ FixMontane
    \/ FixMangrove
    \/ FixWater
    \/ AddGabonAnnobon
    \/ ForestDefinition

Spec == Init /\ [][Next]_vars

----------------------------------------------------------------------------
(* Properties *)

Range(f) == {f[i] : i \in 1..Len(f)}
IsData(v) == v # NoData /\ v # Unset

\* what a lookup with "unmapped becomes 0" gives
LookupOrZero(v, from, to) ==
    IF v \in Range(from) THEN to[CHOOSE i \in 1..Len(from) : from[i] = v] ELSE 0

\* C1 as stated: in stage 1 and in stage 9 a value of fromCodes maps to the
\* matching toCodes entry and any other value maps to 0, so the output is in
\* toCodes \cup {0}, never no-data and never the input passed through.
C1_UnmappedIsZero ==
    /\ pc = 1 =>
         /\ classDDD = LookupOrZero(class2015, class_values, reclass_values)
         /\ classDDD_no_alos =
              LookupOrZero(class2015_no_alos, class_values, reclass_values)
    /\ (pc = 9 /\ inAoi) =>
         /\ fnf = LookupOrZero(class2015_final, fnf_from, fnf_to)
         /\ fnf \in Range(fnf_to) \cup {0}

\* C1 amended: stage 1 (remap followed by unmask) maps fromCodes[i] to
\* toCodes[i] and every other value, no-data included, to 0; stage 9 (remap
\* with no unmask) maps fromCodes[i] to toCodes[i] and every other value
\* (0, 10, 19) to no-data, not to 0; neither passes the input through.
C1_Remap ==
    /\ pc = 1 =>
         /\ classDDD = LookupOrZero(class2015, class_values, reclass_values)
         /\ classDDD_no_alos =
              LookupOrZero(class2015_no_alos, class_values, reclass_values)
         /\ classDDD \in Range(reclass_values) \cup {0}
    /\ (pc = 9 /\ inAoi) =>
         /\ \A i \in 1..Len(fnf_from) :
              class2015_final = fnf_from[i] => fnf = fnf_to[i]
         /\ class2015_final \notin Range(fnf_from) => fnf = NoData
         /\ fnf \in Range(fnf_to) \cup {NoData}

\* C1 witness: a final class outside the stage-9 table, inside the study area
C1_Witness ==
    /\ pc = 9
    /\ inAoi
    /\ class2015_final \in {0, 10, 19}
    /\ fnf = NoData

\* C2 as stated: no pixel satisfies both mangadd and mangfix, so every pixel
\* selected by mangadd ends stage 6 as 7 (mangrove).
C2_Disjoint ==
    pc = 6 =>
      LET a == mangadd(mangroves, dem, class2015_fix5, mang_buffer)
          f == mangfix(mangroves, dem, countries_raster)
      IN  /\ ~(a = 1 /\ f = 1)
          /\ a = 1 => class2015_fix7 = 7

\* C2 amended: mangadd and mangfix overlap exactly on the pixels with
\* indicator 1, class <= 12, inside the buffer, a valid country code and
\* elevation <= 35 where the elevation is 35 or the country code is 3; a
\* pixel selected by mangadd alone ends stage 6 as 7, a pixel selected by
\* both ends as 8.
C2_Overlap ==
    pc = 6 =>
      LET a == mangadd(mangroves, dem, class2015_fix5, mang_buffer)
          f == mangfix(mangroves, dem, countries_raster)
      IN  /\ (a = 1 /\ f = 1) <=>
                /\ mangroves = 1
                /\ class2015_fix5 # NoData /\ class2015_fix5 <= 12
                /\ mang_buffer = 1
                /\ countries_raster # NoData
                /\ dem # NoData /\ dem <= 35
                /\ (dem = 35 \/ countries_raster = 3)
          /\ (a = 1 /\ f # 1) => class2015_fix7 = 7
          /\ (a = 1 /\ f = 1) => class2015_fix7 = 8

\* C2 witness: a pixel selected by both predicates, ending as swamp forest
C2_Witness ==
    /\ pc = 6
    /\ mangadd(mangroves, dem, class2015_fix5, mang_buffer) = 1
    /\ mangfix(mangroves, dem, countries_raster) = 1
    /\ class2015_fix5 = 1
    /\ class2015_fix7 = 8

\* C3 as stated: with valid elevation and country code, a pixel with indicator
\* 1 at elevation > 35 or in country 2 or 3 has class 8 after stage 6, and a
\* pixel with indicator 1 at elevation <= 35 outside both is never set to 8.
C3_PairStrict ==
    (/\ pc = 6
     /\ class2015_fix5 # NoData
     /\ dem # NoData
     /\ countries_raster # NoData
     /\ mangroves = 1) =>
       IF dem > 35 \/ countries_raster \in {2, 3}
       THEN class2015_fix7 = 8
       ELSE class2015_fix5 # 8 => class2015_fix7 # 8

\* C3 amended: the erroneous area is elevation >= 35 or country code 3, with
\* elevation and country code both valid; a pixel of the study area with
\* indicator 1 in it has class 8 after stage 6 whatever its class before, and
\* a pixel with indicator 1 outside it (elevation < 35 and country not 3, or
\* either one no-data) is never set to 8 by this stage.
C3_Erroneous ==
    (/\ pc = 6
     /\ class2015_fix5 # NoData
     /\ mangroves = 1) =>
       IF /\ dem # NoData
          /\ countries_raster # NoData
          /\ (dem >= 35 \/ countries_raster = 3)
       THEN class2015_fix7 = 8
       ELSE class2015_fix5 # 8 => class2015_fix7 # 8

\* C3 witness: a water pixel at exactly 35 m outside country 3 becomes 8
C3_Witness ==
    /\ pc = 6
    /\ mangroves = 1
    /\ dem = 35
    /\ countries_raster = 1
    /\ class2015_fix5 = 18
    /\ class2015_fix7 = 8

\* C4 as stated: every pixel of the final classification inside the study
\* area is in 1..18, or 0 or no-data; the sentinel 128 never appears.
C4_Within18 ==
    (pc >= 8 /\ inAoi) => class2015_final \in (0..18) \cup {NoData}

\* C4 amended: every pixel of the final classification is in 0..19 and never
\* no-data; the codes 10 and 19 occur only where the national or the island
\* dataset carries them; the sentinel 128 never appears.
C4_Within19 ==
    /\ pc >= 8 => class2015_final \in 0..MaxDDD
    /\ (pc = 8 /\ class2015_final \in {10, 19}) =>
          \/ annobon = class2015_final
          \/ countries_raster = 6 /\ gabon_os = class2015_final

\* C4 witness: the sentinel inside the footprint is replaced by a class
C4_Witness ==
    /\ pc = 8
    /\ countries_raster = 6
    /\ gabon_os = 128
    /\ annobon = 0
    /\ class2015_final \in 1..18

\* C5: stage 7, for a pixel with a class: permanent water (3) ends as 18
\* whatever the prior class; else seasonal water (2) on a class that is
\* neither 14 nor 18 ends as 14; else the class is unchanged.
C5_Hydrology ==
    (pc = 7 /\ class2015_fix7 # NoData) =>
       class2015_fixwater =
         IF water_area = 3 THEN 18
         ELSE IF water_area = 2 /\ class2015_fix7 \notin {14, 18} THEN 14
         ELSE class2015_fix7

\* C5 witness: permanent water over aquatic grassland
C5_Witness ==
    /\ pc = 7
    /\ water_area = 3
    /\ class2015_fix7 = 14
    /\ class2015_fixwater = 18

\* C6 as stated, inside the study area: the final class is A if A > 0; else R outside the footprint
\* (country code not 6); else N when N is not 128 and R when N = 128.
C6_MosaicSentinelOnly ==
    (pc = 8 /\ inAoi) =>
       class2015_final =
         IF annobon > 0 THEN annobon
         ELSE IF countries_raster # 6 THEN class2015_fixwater
         ELSE IF gabon_os # 128 THEN gabon_os
         ELSE class2015_fixwater

\* C6 amended: the final class is A if A > 0; else R outside the footprint;
\* else, inside the footprint, N when N is a value other than 128, and R when
\* N = 128 or N is no-data.
C6_Mosaic ==
    pc = 8 =>
       class2015_final =
         IF annobon > 0 THEN annobon
         ELSE IF countries_raster # 6 THEN class2015_fixwater
         ELSE IF gabon_os \notin {128, NoData} THEN gabon_os
         ELSE class2015_fixwater

\* C6 witness: inside the footprint, no national data, no island data
C6_Witness ==
    /\ pc = 8
    /\ annobon = 0
    /\ countries_raster = 6
    /\ gabon_os = NoData
    /\ class2015_fixwater = 14
    /\ class2015_final = 14

\* C7: stage 9, inside the study area: class 12 gives 1 in countries 2 and 3
\* and 2 elsewhere; classes 1..9 and 11 give 1, 13..17 give 2 and 18 gives 3
\* in every country.
C7_ForestDefinition ==
    (pc = 9 /\ inAoi /\ inLsib) =>
       /\ class2015_final = 12 =>
            fnf_final = IF countries_raster \in {2, 3} THEN 1 ELSE 2
       /\ class2015_final \in (1..9) \cup {11} => fnf_final = 1
       /\ class2015_final \in 13..17 => fnf_final = 2
       /\ class2015_final = 18 => fnf_final = 3

\* C7 witness: shrub savanna in country 2, remapped to 2 and forced to 1
C7_Witness ==
    /\ pc = 9
    /\ inAoi
    /\ inLsib
    /\ class2015_final = 12
    /\ countries_raster = 2
    /\ fnf = 2
    /\ fnf_final = 1

\* C8: stage 3, inside the study area with a valid indicator: the class is 17
\* iff the indicator is 1; class 17 with indicator 0 ends as 15; another class
\* with indicator 0 is kept; class 15 with indicator 1 ends as 17.
C8_BuiltUp ==
    (pc = 3 /\ inAoi /\ builtup \in {0, 1}) =>
       /\ class2015_fix1 = 17 <=> builtup = 1
       /\ (classDDD_fill = 17 /\ builtup = 0) => class2015_fix1 = 15
       /\ (classDDD_fill # 17 /\ builtup = 0) => class2015_fix1 = classDDD_fill
       /\ (classDDD_fill = 15 /\ builtup = 1) => class2015_fix1 = 17

\* C8 witness: bare soil under the built-up indicator
C8_Witness ==
    /\ pc = 3
    /\ inAoi
    /\ classDDD_fill = 15
    /\ builtup = 1
    /\ class2015_fix1 = 17

\* C9: stages 4-5: montane and submontane are never both true; base forest
\* (1) passes the canopy split unchanged and ends stage 5 as 6 at elevation
\* >= 1750, 5 at 1100 <= elevation < 1750 and 1 below 1100; a class other
\* than 1 is not changed by stage 5.
C9_ElevationTyper ==
    /\ (pc \in {4, 5} /\ class2015_fix1 = 1) => class2015_fix3 = 1
    /\ pc = 5 =>
         /\ ~(montane(dem, class2015_fix1) = 1
                /\ submontane(dem, class2015_fix1) = 1)
         /\ (class2015_fix1 = 1 /\ dem # NoData) =>
               class2015_fix5 = IF dem >= 1750 THEN 6
                                ELSE IF dem >= 1100 THEN 5
                                ELSE 1
         /\ class2015_fix1 # 1 => class2015_fix5 = class2015_fix3

\* C9 witness: base forest at 1800 m with tree cover 80 ends as montane
C9_Witness ==
    /\ pc = 5
    /\ class2015_fix1 = 1
    /\ dem = 1800
    /\ treecover2015 = 80
    /\ class2015_fix5 = 6

\* C10: stage 4: a class outside {2, 4} is unchanged; class 2 or 4 ends as 4
\* when tree cover < 60 and as 2 when tree cover >= 60; applying the splitter
\* to its own result changes nothing.
C10_CanopySplit ==
    pc = 4 =>
       /\ class2015_fix1 \notin {2, 4} => class2015_fix3 = class2015_fix1
       /\ (class2015_fix1 \in {2, 4} /\ treecover2015 # NoData) =>
             class2015_fix3 = IF treecover2015 < 60 THEN 4 ELSE 2
       /\ Class2015Fix3(class2015_fix3, treecover2015) = class2015_fix3

\* C10 witness: closed forest under 59 % tree cover written by the first
\* overwrite and not selected again by the second
C10_Witness ==
    /\ pc = 4
    /\ class2015_fix1 = 2
    /\ treecover2015 = 59
    /\ class2015_fix3 = 4

====
